---------------------------- MODULE Spec2Model ----------------------------
(***************************************************************************)
(* A model of list_scheduling.py: the hazard-dependency builder, the two   *)
(* priority heuristics and the cycle-by-cycle dispatch loop of Scheduler,  *)
(* together with the OpUnits pools and the heapq ready set it relies on.   *)
(*                                                                         *)
(* Instructions are identified by their 1-based position in the input      *)
(* list (Instr.n).  Python sequences are 0-based; the fields that hold a   *)
(* Python index (OpUnits.next, allocate's return value) keep the 0-based   *)
(* value and are shifted by one where they index a TLA+ sequence.          *)
(***************************************************************************)
EXTENDS Integers, Sequences, FiniteSets, TLC

VARIABLES
    pc,                    \* position in Scheduler.__init__ / schedule()
    instr_list,            \* the Instr objects handed to the constructor
    priority_type,         \* constructor argument
    n_units,               \* constructor arguments n_alu, n_fpu, n_memory
    alu, fpu, memory,      \* the three OpUnits pools
    instr_wait_list,       \* Scheduler.instr_wait_list (instruction numbers)
    ready_set,             \* Scheduler.ready_set, the heapq array
    instr_dispatched_list, \* Scheduler.instr_dispatched_list
    dependent_list,        \* Instr.dependent_list, per instruction
    next_list,             \* Instr.next_list, per instruction
    priority,              \* Instr.priority, per instruction
    t_start, t_end,        \* Instr.t_start / Instr.t_end, per instruction
    t,                     \* the local t of schedule()
    output,                \* what _dispatch printed: <<time, dispatched>> entries
    n_pass,                \* number of passes of the priority relaxation loop
    peak,                  \* n_busy of each pool right after the dispatch pass
    allocated              \* per instruction, the value allocate() returned

vars == <<pc, instr_list, priority_type, n_units, alu, fpu, memory,
          instr_wait_list, ready_set, instr_dispatched_list, dependent_list,
          next_list, priority, t_start, t_end, t, output, n_pass, peak,
          allocated>>

-----------------------------------------------------------------------------
(* Bounds of the model *)

MaxInstr == 4
NumRegs == 3
MaxUnits == 2
MaxIndep == 6
MaxHazard == 3
HazardRegs == 2

(* Program constants *)

ClocksALU == 1
ClocksFPU == 5
ClocksMEMORY == 2
N_ALU == 2
N_FPU == 1
N_MEMORY == 1

\* Python's None in the integer-valued fields t_start, t_end, allocated
NoTime == -1
\* Python's None in Instr.priority (assigned priorities are all negative)
NoPriority == 0

Ops == {"ADD", "MUL", "FADD", "FMUL", "LW", "SW"}
PoolNames == {"alu", "fpu", "memory"}
Regs == 1..NumRegs

Range(s) == {s[k] : k \in DOMAIN s}

-----------------------------------------------------------------------------
(* class Instr *)

\* Instr.get_status, from the two timestamps
get_status(ts, te) ==
    IF te = NoTime
    THEN IF ts = NoTime THEN "NOT_STARTED" ELSE "RUNNING"
    ELSE "DONE"

Status(i) == get_status(t_start[i], t_end[i])

\* InstrUpdate with the completion test one cycle late
InstrUpdateLate(ts, te, now, clocks) ==
    IF ts # NoTime /\ now = ts + clocks THEN now ELSE te

\* Instr.update: the new t_end of an instruction with timestamps ts, te
InstrUpdate(ts, te, now, clocks) ==
    IF ts # NoTime /\ now = ts + clocks - 1 THEN now ELSE te

\* Instr.__lt__ on two instruction numbers
InstrLt(a, b) == priority[a] < priority[b]

-----------------------------------------------------------------------------
(* class OpUnits *)

OpUnits(n, clocks) ==
    [n |-> n,
     unit_list |-> [k \in 1..n |-> <<0, FALSE>>],
     clocks |-> clocks,
     n_busy |-> 0,
     next |-> 0]

\* the pool before Scheduler.__init__ has built it
NoUnits == OpUnits(0, 0)

\* is_full with the comparison off by one machine
is_full_over(u) == u.n < u.n_busy

is_full(u) == u.n = u.n_busy

\* the search of allocate for the index to be allocated next
NextFree(ul, n, a, old) ==
    LET free == {i \in 1..(n - 1) : ~ul[((a + i) % n) + 1][2]}
    IN  IF free = {} THEN old
        ELSE LET i == CHOOSE x \in free : \A y \in free : x <= y
             IN  (a + i) % n

\* OpUnits.allocate: the pool after the call (the index returned is u.next)
allocate(u, now) ==
    LET a == u.next
        ul == [u.unit_list EXCEPT ![a + 1] = <<now, TRUE>>]
        nb == u.n_busy + 1
    IN  [u EXCEPT !.unit_list = ul,
                  !.n_busy = nb,
                  !.next = IF nb < u.n THEN NextFree(ul, u.n, a, u.next)
                           ELSE u.next]

\* Expiring with the release test one cycle late
ExpiringLate(u, now) ==
    {k \in 1..u.n : u.unit_list[k][2] /\ now = u.unit_list[k][1] + u.clocks}

\* the machines for which OpUnits.update decrements n_busy at time now
Expiring(u, now) ==
    {k \in 1..u.n : u.unit_list[k][2] /\ now = u.unit_list[k][1] + u.clocks - 1}

\* OpUnits.update: `unit = (unit[0], False)` rebinds the loop variable only,
\* so unit_list keeps its entries and n_busy alone changes
OpUnitsUpdate(u, now) ==
    [u EXCEPT !.n_busy = u.n_busy - Cardinality(Expiring(u, now))]

-----------------------------------------------------------------------------
(* class Scheduler: helpers *)

NumInstr == Len(instr_list)
Instrs == 1..NumInstr

Pools == [alu |-> alu, fpu |-> fpu, memory |-> memory]

\* Scheduler._get_op_unit, as the name of the pool
GetOpUnit(opecode) ==
    CASE opecode = "ADD" -> "alu"
      [] opecode = "MUL" -> "alu"
      [] opecode = "FADD" -> "fpu"
      [] opecode = "FMUL" -> "fpu"
      [] opecode = "LW" -> "memory"
      [] opecode = "SW" -> "memory"

UnitOf(i) == GetOpUnit(instr_list[i].opecode)

\* self._get_op_unit(instr).clocks
ClocksOf(i) == Pools[UnitOf(i)].clocks

Rep(x, n) == [k \in 1..n |-> x]

\* _set_dependency, innermost loops: how many times instruction j is appended
\* to the dependent_list of instruction i (and i to the next_list of j)
RawCount(a, b) == Cardinality({k \in DOMAIN a.right : a.right[k] \in Range(b.left)})
WawCount(a, b) == Cardinality({k \in DOMAIN a.left : a.left[k] \in Range(b.left)})
WarCount(a, b) == Cardinality({k \in DOMAIN a.left : a.left[k] \in Range(b.right)})

\* HazardCount without the write-after-read test
HazardCountNoWar(a, b) == RawCount(a, b) + WawCount(a, b)

HazardCount(a, b) == RawCount(a, b) + WawCount(a, b) + WarCount(a, b)

\* _set_dependency, `for j in range(0, i)`: the earlier instructions that
\* instruction i is compared with
EarlierThan(i) == 1..(i - 1)

RECURSIVE DependentListOf(_, _, _)
\* the dependent_list of instruction i after the j loop has passed j
DependentListOf(l, i, j) ==
    IF j = 0 THEN <<>>
    ELSE DependentListOf(l, i, j - 1) \o
         (IF j \in EarlierThan(i) THEN Rep(j, HazardCount(l[i], l[j])) ELSE <<>>)

RECURSIVE NextListOf(_, _, _)
\* the next_list of instruction j after the i loop has passed i
NextListOf(l, j, i) ==
    IF i = 0 THEN <<>>
    ELSE NextListOf(l, j, i - 1) \o
         (IF j \in EarlierThan(i) THEN Rep(i, HazardCount(l[i], l[j])) ELSE <<>>)

-----------------------------------------------------------------------------
(* priority assignment *)

\* the weight _find_critical_path gives the edges leaving instruction i
EdgeWeight(i) == ClocksOf(i)

RECURSIVE CriticalEdges(_, _, _)
\* _find_critical_path, `for next_instr in instr.next_list`, from position k
CriticalEdges(st, i, k) ==
    IF k > Len(next_list[i]) THEN st
    ELSE LET nx == next_list[i][k]
             cand == st.p[nx] - EdgeWeight(i)
         IN  IF st.p[i] > cand
             THEN CriticalEdges([p |-> [st.p EXCEPT ![i] = cand], updated |-> TRUE], i, k + 1)
             ELSE CriticalEdges(st, i, k + 1)

RECURSIVE CriticalPass(_, _)
\* one `for instr in self.instr_wait_list` pass of _find_critical_path
CriticalPass(st, k) ==
    IF k > Len(instr_wait_list) THEN st
    ELSE CriticalPass(CriticalEdges(st, instr_wait_list[k], 1), k + 1)

\* CriticalLoop stopping after its first pass
CriticalLoopOnce(p, n) ==
    [p |-> CriticalPass([p |-> p, updated |-> FALSE], 1).p, n |-> n + 1]

RECURSIVE CriticalLoop(_, _)
\* the `while True` loop of _find_critical_path; n counts the passes
CriticalLoop(p, n) ==
    LET st == CriticalPass([p |-> p, updated |-> FALSE], 1)
    IN  IF st.updated THEN CriticalLoop(st.p, n + 1)
        ELSE [p |-> st.p, n |-> n + 1]

\* the initial value of _find_critical_path
CriticalInit(i) == -ClocksOf(i)

RECURSIVE DepthEdges(_, _, _)
\* _count_dependency, `for dependent_instr in instr.dependent_list`
DepthEdges(st, i, k) ==
    IF k > Len(dependent_list[i]) THEN st
    ELSE LET d == dependent_list[i][k]
             cand == st.p[d] - 1
         IN  IF st.p[i] > cand
             THEN DepthEdges([p |-> [st.p EXCEPT ![i] = cand], updated |-> TRUE], i, k + 1)
             ELSE DepthEdges(st, i, k + 1)

RECURSIVE DepthPass(_, _)
DepthPass(st, k) ==
    IF k > Len(instr_wait_list) THEN st
    ELSE DepthPass(DepthEdges(st, instr_wait_list[k], 1), k + 1)

RECURSIVE DepthLoopAgain(_, _)
\* DepthLoop making one more pass after the pass that changed nothing
DepthLoopAgain(p, n) ==
    LET st == DepthPass([p |-> p, updated |-> FALSE], 1)
    IN  IF st.updated THEN DepthLoopAgain(st.p, n + 1)
        ELSE [p |-> DepthPass([p |-> st.p, updated |-> FALSE], 1).p, n |-> n + 2]

RECURSIVE DepthLoop(_, _)
\* the `while True` loop of _count_dependency; n counts the passes
DepthLoop(p, n) ==
    LET st == DepthPass([p |-> p, updated |-> FALSE], 1)
    IN  IF st.updated THEN DepthLoop(st.p, n + 1)
        ELSE [p |-> st.p, n |-> n + 1]

\* DepthInit starting from the latency, as CriticalInit does
DepthInitClocks(i) == -ClocksOf(i)

\* the initial value of _count_dependency
DepthInit(i) == -1

\* the initial-value loops: instr.priority = f[instr] for the instructions of
\* instr_wait_list
InitPriority(f) ==
    [i \in Instrs |-> IF i \in Range(instr_wait_list) THEN f[i] ELSE priority[i]]

-----------------------------------------------------------------------------
(* the ready set *)

RECURSIVE SiftDown(_, _, _)
\* heapq._siftdown(heap, 0, pos) with newitem held aside
SiftDown(heap, pos, newitem) ==
    IF pos > 1 /\ InstrLt(newitem, heap[pos \div 2])
    THEN SiftDown([heap EXCEPT ![pos] = heap[pos \div 2]], pos \div 2, newitem)
    ELSE [heap EXCEPT ![pos] = newitem]

\* heapq.heappush
heappush(heap, item) == SiftDown(Append(heap, item), Len(heap) + 1, item)

\* AllDone satisfied as soon as one predecessor is done
AllDoneSome(i, ts, te) ==
    \/ dependent_list[i] = <<>>
    \/ \E k \in DOMAIN dependent_list[i] :
          get_status(ts[dependent_list[i][k]], te[dependent_list[i][k]]) = "DONE"

\* AllDone accepting a predecessor that has started but not finished
AllDoneStarted(i, ts, te) ==
    \A k \in DOMAIN dependent_list[i] :
        get_status(ts[dependent_list[i][k]], te[dependent_list[i][k]]) # "NOT_STARTED"

\* _update_ready_set: the flag computed for one instruction
AllDone(i, ts, te) ==
    \A k \in DOMAIN dependent_list[i] :
        get_status(ts[dependent_list[i][k]], te[dependent_list[i][k]]) = "DONE"

RECURSIVE PushReady(_, _, _, _, _)
\* _update_ready_set, first loop: the heap after the wait list from position k
PushReady(heap, wait, k, ts, te) ==
    IF k > Len(wait) THEN heap
    ELSE PushReady(IF AllDone(wait[k], ts, te) THEN heappush(heap, wait[k]) ELSE heap,
                   wait, k + 1, ts, te)

\* UpdateReadySet leaving the instructions it has pushed in the wait list
UpdateReadySetKeep(wait, ready, ts, te) ==
    [ready |-> PushReady(ready, wait, 1, ts, te), wait |-> wait]

\* _update_ready_set: the new ready set and wait list
UpdateReadySet(wait, ready, ts, te) ==
    [ready |-> PushReady(ready, wait, 1, ts, te),
     wait |-> SelectSeq(wait, LAMBDA i : ~AllDone(i, ts, te))]

-----------------------------------------------------------------------------
(* _dispatch *)

\* the iteration order of `for instr in self.ready_set`
DispatchOrder(ready) == ready

RECURSIVE DispatchPassBreak(_, _, _, _)
\* DispatchPass leaving the loop at the first instruction whose pool is full
DispatchPassBreak(st, order, k, now) ==
    IF k > Len(order) THEN st
    ELSE LET i == order[k]
             u == st.pools[UnitOf(i)]
         IN  IF is_full(u) THEN st
             ELSE DispatchPassBreak(
                    [pools |-> [st.pools EXCEPT ![UnitOf(i)] = allocate(u, now)],
                     t_start |-> [st.t_start EXCEPT ![i] = now],
                     dispatched |-> Append(st.dispatched, i),
                     allocated |-> [st.allocated EXCEPT ![i] = u.next]],
                    order, k + 1, now)

RECURSIVE DispatchPass(_, _, _, _)
\* the dispatch loop of _dispatch from position k of the order
DispatchPass(st, order, k, now) ==
    IF k > Len(order) THEN st
    ELSE LET i == order[k]
             u == st.pools[UnitOf(i)]
         IN  IF is_full(u) THEN DispatchPass(st, order, k + 1, now)
             ELSE DispatchPass(
                    [pools |-> [st.pools EXCEPT ![UnitOf(i)] = allocate(u, now)],
                     t_start |-> [st.t_start EXCEPT ![i] = now],
                     dispatched |-> Append(st.dispatched, i),
                     allocated |-> [st.allocated EXCEPT ![i] = u.next]],
                    order, k + 1, now)

\* the loop condition of schedule()
LoopCondition == Len(instr_wait_list \o ready_set) > 0

-----------------------------------------------------------------------------
(* Inputs *)

\* opcodes of the inputs, one for each pool
InputOps == {"ADD", "FADD", "LW"}
PriorityTypes == {"time", "resource", "speed"}

\* N_ALU, N_FPU, N_MEMORY of the main program
DefaultUnits == [alu |-> N_ALU, fpu |-> N_FPU, memory |-> N_MEMORY]
\* the unit counts of the inputs: the main program's, and n machines per pool
UnitCounts == {DefaultUnits} \cup {[u \in PoolNames |-> n] : n \in 1..MaxUnits}

\* the state of the Instr objects after Instr.__init__, and of everything a
\* Scheduler will hold
Fresh(l) ==
    /\ pc = "start"
    /\ instr_list = l
    /\ alu = NoUnits /\ fpu = NoUnits /\ memory = NoUnits
    /\ instr_wait_list = <<>>
    /\ ready_set = <<>>
    /\ instr_dispatched_list = <<>>
    /\ dependent_list = [i \in 1..Len(l) |-> <<>>]
    /\ next_list = [i \in 1..Len(l) |-> <<>>]
    /\ priority = [i \in 1..Len(l) |-> NoPriority]
    /\ t_start = [i \in 1..Len(l) |-> NoTime]
    /\ t_end = [i \in 1..Len(l) |-> NoTime]
    /\ t = 0
    /\ output = <<>>
    /\ n_pass = 0
    /\ peak = [u \in PoolNames |-> 0]
    /\ allocated = [i \in 1..Len(l) |-> NoTime]

\* Programs of up to MaxInstr instructions in which instruction i writes
\* register i and reads one of the registers 1..NumRegs: reading the register
\* of an earlier instruction is a RAW hazard, reading the register a later
\* instruction writes is a WAR hazard; any of the unit counts.
Init ==
    /\ \E n \in 0..MaxInstr :
         \E ops \in [1..n -> InputOps], reads \in [1..n -> Regs] :
            Fresh([i \in 1..n |->
                     [opecode |-> ops[i], left |-> <<i>>, right |-> <<reads[i]>>]])
    /\ priority_type \in PriorityTypes
    /\ n_units \in UnitCounts

\* Programs of up to MaxIndep mutually independent ALU instructions
\* (instruction i reads and writes register i alone), with the unit counts
\* of the main program.
InitIndep ==
    /\ \E n \in 0..MaxIndep :
         \E ops \in [1..n -> {"ADD", "MUL"}] :
            Fresh([i \in 1..n |->
                     [opecode |-> ops[i], left |-> <<i>>, right |-> <<i>>]])
    /\ priority_type \in PriorityTypes
    /\ n_units = DefaultUnits

\* Programs of up to MaxHazard instructions over HazardRegs registers, each
\* writing one register and reading one or two (in increasing order), with
\* the unit counts of the main program: all three kinds of hazard, and several between one pair.
HazardRegSet == 1..HazardRegs
HazardRights ==
    {<<r>> : r \in HazardRegSet} \cup
    UNION {{<<r, s>> : s \in (r + 1)..HazardRegs} : r \in HazardRegSet}
InitHazard ==
    /\ \E l \in UNION {[1..n -> [opecode : InputOps,
                                 left : {<<r>> : r \in HazardRegSet},
                                 right : HazardRights]] : n \in 0..MaxHazard} :
         Fresh(l)
    /\ priority_type \in PriorityTypes
    /\ n_units = DefaultUnits

-----------------------------------------------------------------------------
(* Scheduler.__init__ *)

\* ValidType accepting every heuristic name
ValidTypeAny == TRUE

\* the test of `if priority_type not in ["time", "resource"]`
ValidType == priority_type \in {"time", "resource"}

\* the pools and lists are assigned before the priority type is looked at
Construct ==
    /\ pc = "start"
    /\ alu' = OpUnits(n_units["alu"], ClocksALU)
    /\ fpu' = OpUnits(n_units["fpu"], ClocksFPU)
    /\ memory' = OpUnits(n_units["memory"], ClocksMEMORY)
    /\ instr_wait_list' = [i \in Instrs |-> i]
    /\ instr_dispatched_list' = <<>>
    /\ ready_set' = <<>>
    /\ pc' = IF ValidType THEN "constructed" ELSE "ValueError"
    /\ UNCHANGED <<instr_list, priority_type, n_units, dependent_list, next_list,
                   priority, t_start, t_end, t, output, n_pass, peak, allocated>>

-----------------------------------------------------------------------------
(* Scheduler.schedule *)

SetDependency ==
    /\ pc = "constructed"
    /\ dependent_list' =
         [i \in Instrs |-> DependentListOf(instr_list, i, NumInstr)]
    /\ next_list' = [j \in Instrs |-> NextListOf(instr_list, j, NumInstr)]
    /\ pc' = "set_priority"
    /\ UNCHANGED <<instr_list, priority_type, n_units, alu, fpu, memory,
                   instr_wait_list, ready_set, instr_dispatched_list, priority,
                   t_start, t_end, t, output, n_pass, peak, allocated>>

\* _set_priority, case "time"
FindCriticalPath ==
    /\ pc = "set_priority"
    /\ priority_type = "time"
    /\ LET r == CriticalLoop(InitPriority([i \in Instrs |-> CriticalInit(i)]), 0)
       IN  priority' = r.p /\ n_pass' = r.n
    /\ pc' = "first_ready"
    /\ UNCHANGED <<instr_list, priority_type, n_units, alu, fpu, memory,
                   instr_wait_list, ready_set, instr_dispatched_list,
                   dependent_list, next_list, t_start, t_end, t, output, peak,
                   allocated>>

\* _set_priority, case "resource"
CountDependency ==
    /\ pc = "set_priority"
    /\ priority_type = "resource"
    /\ LET r == DepthLoop(InitPriority([i \in Instrs |-> DepthInit(i)]), 0)
       IN  priority' = r.p /\ n_pass' = r.n
    /\ pc' = "first_ready"
    /\ UNCHANGED <<instr_list, priority_type, n_units, alu, fpu, memory,
                   instr_wait_list, ready_set, instr_dispatched_list,
                   dependent_list, next_list, t_start, t_end, t, output, peak,
                   allocated>>

\* `t = 0` and the first _update_ready_set
FirstReadySet ==
    /\ pc = "first_ready"
    /\ t' = 0
    /\ LET r == UpdateReadySet(instr_wait_list, ready_set, t_start, t_end)
       IN  ready_set' = r.ready /\ instr_wait_list' = r.wait
    /\ pc' = "loop"
    /\ UNCHANGED <<instr_list, priority_type, n_units, alu, fpu, memory,
                   instr_dispatched_list, dependent_list, next_list, priority,
                   t_start, t_end, output, n_pass, peak, allocated>>

\* one iteration of the while loop: _dispatch(t), then t += 1
Dispatch ==
    /\ pc = "loop"
    /\ LoopCondition
    /\ LET st == DispatchPass([pools |-> Pools, t_start |-> t_start,
                               dispatched |-> <<>>, allocated |-> allocated],
                              DispatchOrder(ready_set), 1, t)
           left == SelectSeq(ready_set, LAMBDA i : i \notin Range(st.dispatched))
           dl == instr_dispatched_list \o st.dispatched
           te == [i \in Instrs |->
                    IF i \in Range(dl)
                    THEN InstrUpdate(st.t_start[i], t_end[i], t, ClocksOf(i))
                    ELSE t_end[i]]
           r == UpdateReadySet(instr_wait_list, left, st.t_start, te)
       IN  /\ t_start' = st.t_start
           /\ allocated' = st.allocated
           /\ peak' = [u \in PoolNames |-> st.pools[u].n_busy]
           /\ output' = IF Len(st.dispatched) > 0
                        THEN Append(output, <<t, st.dispatched>>)
                        ELSE output
           /\ instr_dispatched_list' = dl
           /\ t_end' = te
           /\ alu' = OpUnitsUpdate(st.pools["alu"], t)
           /\ fpu' = OpUnitsUpdate(st.pools["fpu"], t)
           /\ memory' = OpUnitsUpdate(st.pools["memory"], t)
           /\ ready_set' = r.ready
           /\ instr_wait_list' = r.wait
    /\ t' = t + 1
    /\ pc' = "loop"
    /\ UNCHANGED <<instr_list, priority_type, n_units, dependent_list, next_list,
                   priority, n_pass>>

\* the loop condition fails: schedule() returns
Finish ==
    /\ pc = "loop"
    /\ ~LoopCondition
    /\ pc' = "done"
    /\ UNCHANGED <<instr_list, priority_type, n_units, alu, fpu, memory,
                   instr_wait_list, ready_set, instr_dispatched_list,
                   dependent_list, next_list, priority, t_start, t_end, t,
                   output, n_pass, peak, allocated>>

Next ==
    \/ Construct
    \/ SetDependency
    \/ FindCriticalPath
    \/ CountDependency
    \/ FirstReadySet
    \/ Dispatch
    \/ Finish

Spec == Init /\ [][Next]_vars

SpecIndep == InitIndep /\ [][Next]_vars

SpecHazard == InitHazard /\ [][Next]_vars

-----------------------------------------------------------------------------
(* Vocabulary of the properties *)

\* the latency of a pool's operations: ALU 1, FPU 5, memory 2
LatencyOf(u) ==
    CASE u = "alu" -> ClocksALU
      [] u = "fpu" -> ClocksFPU
      [] u = "memory" -> ClocksMEMORY

Latency(i) == LatencyOf(UnitOf(i))

Started(i) == t_start[i] # NoTime
Ended(i) == t_end[i] # NoTime
Predecessors(i) == Range(dependent_list[i])
Successors(i) == Range(next_list[i])
Scheduling == pc \in {"loop", "done"}
PrioritySet == pc \in {"first_ready", "loop", "done"}
DependencySet == pc \in {"set_priority", "first_ready", "loop", "done"}

\* the cycles that _dispatch has simulated
Cycles == 0..(t - 1)

\* the instructions of pool u executing in cycle c
ExecutingAt(u, c) ==
    {i \in Instrs : /\ UnitOf(i) = u
                    /\ Started(i)
                    /\ t_start[i] <= c
                    /\ c <= t_start[i] + LatencyOf(u) - 1}

\* instruction i was in the ready set during the dispatch pass of cycle c
ReadyAt(i, c) ==
    /\ \A d \in Predecessors(i) : Ended(d) /\ t_end[d] < c
    /\ ~(Started(i) /\ t_start[i] < c)

DispatchedAt(c) == {i \in Instrs : Started(i) /\ t_start[i] = c}

MaxOf(S) == IF S = {} THEN 0 ELSE CHOOSE x \in S : \A y \in S : y <= x
MinOf(S) == CHOOSE x \in S : \A y \in S : x <= y

-----------------------------------------------------------------------------
(* Properties *)

\* C1: for every dependency edge (A, B), whenever B's start cycle is set, A's
\* end cycle is already set and start_cycle(B) >= end_cycle(A) + 1.
C1_StartAfterPredecessors ==
    \A b \in Instrs : \A a \in Predecessors(b) :
        Started(b) => Ended(a) /\ t_start[b] >= t_end[a] + 1

\* an instruction with two predecessors of different latency has started in
\* the cycle right after the later one ended
C1_Witness ==
    \E b \in Instrs : \E a1 \in Predecessors(b), a2 \in Predecessors(b) :
        /\ Started(b)
        /\ Latency(a1) > Latency(a2)
        /\ t_end[a2] < t_end[a1]
        /\ t_start[b] = t_end[a1] + 1

\* C2: at every simulated cycle and for each pool, the count of busy machines
\* stays between 0 and the configured unit count, and the number of
\* instructions of the pool's class executing in the cycle never exceeds the
\* unit count.
C2_Capacity ==
    \A u \in PoolNames :
        /\ Pools[u].n_busy \in 0..n_units[u]
        /\ peak[u] \in 0..n_units[u]
        /\ \A c \in Cycles : Cardinality(ExecutingAt(u, c)) <= n_units[u]

\* a pool of two multi-cycle machines is full, both machines executing, and
\* an instruction of its class is left in the ready set
C2_Witness ==
    /\ pc = "loop"
    /\ \E u \in PoolNames :
         /\ n_units[u] = 2
         /\ LatencyOf(u) > 1
         /\ peak[u] = 2
         /\ Cardinality(ExecutingAt(u, t - 1)) = 2
         /\ \E i \in Range(ready_set) : UnitOf(i) = u /\ ReadyAt(i, t - 1)

\* C3: when the scheduling loop of schedule() terminates, every instruction
\* of the input has status Done.
C3_AllDoneAtExit ==
    pc = "done" => \A i \in Instrs : Status(i) = "DONE"

C4_Step ==
    \A i \in Instrs :
        /\ Started(i) => t_start'[i] = t_start[i]
        /\ Ended(i) => t_end'[i] = t_end[i]
        /\ t_end'[i] # NoTime =>
              t_start'[i] # NoTime /\ t_end'[i] = t_start'[i] + Latency(i) - 1
        /\ (~Ended(i) /\ t_end'[i] # NoTime) => t' = t + 1 /\ t_end'[i] = t
        /\ (t' = t + 1 /\ t_start'[i] # NoTime /\ t = t_start'[i] + Latency(i) - 1)
              => t_end'[i] = t

\* C4: whenever an instruction's end cycle is set it equals
\* start_cycle + latency(op) - 1, it is set by the completion check of exactly
\* that cycle, and neither start cycle nor end cycle changes once set.
C4_Completion == [][C4_Step]_vars

\* an FPU instruction has completed, four cycles after it started
C4_Witness ==
    \E i \in Instrs : UnitOf(i) = "fpu" /\ Ended(i) /\ t_end[i] = t_start[i] + 4

\* the bound of C5: total instruction count x max latency of the instructions
CycleBound == NumInstr * MaxOf({Latency(i) : i \in Instrs})

\* C5: the scheduling loop terminates with the wait set and the ready set both
\* empty, after at most (instruction count) x (max latency) simulated cycles.
\* Every iteration of the loop adds one to t, so the loop has ended once t
\* can grow no further: t never passes the bound, and schedule() returns
\* with both sets empty.
C5_Termination ==
    /\ t <= CycleBound
    /\ pc = "loop" /\ t = CycleBound => ~LoopCondition
    /\ pc = "done" => instr_wait_list = <<>> /\ ready_set = <<>>

\* a run of three or more instructions has ended after exactly
\* (instruction count) x (max latency) cycles
C5_Witness ==
    /\ pc = "done"
    /\ NumInstr >= 3
    /\ t = CycleBound

\* C6: in a dispatch pass, a ready instruction X is never left undispatched
\* while another ready instruction Y that needs the same pool and has a
\* strictly greater priority value is dispatched.
C6_PriorityOrder ==
    Scheduling =>
        \A x \in Instrs, y \in Instrs :
            (/\ UnitOf(x) = UnitOf(y)
             /\ priority[x] < priority[y]
             /\ Started(y)
             /\ ReadyAt(x, t_start[y]))
            => Started(x) /\ t_start[x] = t_start[y]

\* C7: in every cycle a ready instruction is left undispatched only if
\* unit-count instructions of its pool's class are executing in that cycle;
\* in particular, with m mutually independent ALU instructions and 2 ALUs,
\* each cycle dispatches min(2, remaining) instructions.
C7_Greedy ==
    Scheduling =>
        /\ \A c \in Cycles : \A x \in Instrs :
              (ReadyAt(x, c) /\ ~(Started(x) /\ t_start[x] = c))
              => Cardinality(ExecutingAt(UnitOf(x), c)) = n_units[UnitOf(x)]
        /\ (/\ n_units["alu"] = 2
            /\ \A i \in Instrs : UnitOf(i) = "alu" /\ Predecessors(i) = {}
                                                   /\ Successors(i) = {})
           => \A c \in Cycles :
                 LET remaining ==
                       NumInstr - Cardinality({i \in Instrs : Started(i) /\ t_start[i] < c})
                 IN  Cardinality(DispatchedAt(c)) = MinOf({2, remaining})

\* B reads, or writes, an operand that A writes, or writes one that A reads
Hazard(A, B) ==
    \/ Range(B.right) \cap Range(A.left) # {}
    \/ Range(B.left) \cap Range(A.left) # {}
    \/ Range(B.left) \cap Range(A.right) # {}

\* C8: after _set_dependency, B has A as a predecessor, and A has B as a
\* successor, if and only if A is strictly earlier than B in program order
\* and a RAW, WAW or WAR hazard holds between them.
C8_Edges ==
    DependencySet =>
        \A a \in Instrs, b \in Instrs :
            /\ a \in Predecessors(b) <=> (a < b /\ Hazard(instr_list[a], instr_list[b]))
            /\ b \in Successors(a) <=> a \in Predecessors(b)

\* an edge that only a write-after-read hazard puts there
C8_Witness ==
    /\ DependencySet
    /\ \E a \in Instrs, b \in Instrs :
         /\ a \in Predecessors(b)
         /\ Range(instr_list[b].right) \cap Range(instr_list[a].left) = {}
         /\ Range(instr_list[b].left) \cap Range(instr_list[a].left) = {}

\* C9: after _find_critical_path, priority(A) <= priority(B) - latency(A) for
\* every edge A->B, with equality for at least one outgoing edge of every
\* instruction that has a successor, and every instruction without
\* successors has priority -latency(self).
C9_CriticalPath ==
    (PrioritySet /\ priority_type = "time") =>
        \A a \in Instrs :
            /\ \A b \in Successors(a) : priority[a] <= priority[b] - Latency(a)
            /\ Successors(a) # {} =>
                  \E b \in Successors(a) : priority[a] = priority[b] - Latency(a)
            /\ Successors(a) = {} => priority[a] = -Latency(a)

\* a chain A->B->C in which A also has an edge that is not tight
C9_Witness ==
    /\ PrioritySet /\ priority_type = "time"
    /\ \E a \in Instrs : \E b \in Successors(a), c \in Successors(a) :
         /\ Successors(b) # {}
         /\ priority[a] = priority[b] - Latency(a)
         /\ priority[a] < priority[c] - Latency(a)

RECURSIVE ChainLength(_)
\* the number of edges on the longest chain of predecessors ending at i
ChainLength(i) ==
    IF Predecessors(i) = {} THEN 0
    ELSE 1 + MaxOf({ChainLength(d) : d \in Predecessors(i)})

\* C10: after _count_dependency, the priority of every instruction is
\* -(1 + the number of edges on the longest chain of predecessors ending at
\* it): -1 without predecessors, otherwise the minimum over its predecessors
\* P of priority(P) - 1, whatever the latencies.
C10_DependencyDepth ==
    (PrioritySet /\ priority_type = "resource") =>
        \A i \in Instrs :
            /\ priority[i] = -(1 + ChainLength(i))
            /\ Predecessors(i) = {} => priority[i] = -1
            /\ Predecessors(i) # {} =>
                  priority[i] = MinOf({priority[d] - 1 : d \in Predecessors(i)})

\* an instruction at depth two whose predecessors have different depths and
\* whose own pool is slower than the ALU
C10_Witness ==
    /\ PrioritySet /\ priority_type = "resource"
    /\ \E i \in Instrs : \E d1 \in Predecessors(i), d2 \in Predecessors(i) :
         /\ priority[i] = -3
         /\ priority[d1] # priority[d2]
         /\ Latency(i) > 1

\* the flags of pool u that are set
BusyMachines(u) == {k \in 1..Pools[u].n : Pools[u].unit_list[k][2]}

\* C11: constructing a Scheduler with a priority heuristic other than "time"
\* or "resource" raises the configuration error before any scheduling work:
\* no dependency edge is added, no priority is assigned, no instruction gets
\* a start cycle and no pool machine is allocated.
C11_NoWorkOnBadType ==
    priority_type \notin {"time", "resource"} =>
        /\ pc \in {"start", "ValueError"}
        /\ \A i \in Instrs :
              /\ dependent_list[i] = <<>> /\ next_list[i] = <<>>
              /\ priority[i] = NoPriority
              /\ t_start[i] = NoTime /\ t_end[i] = NoTime
              /\ allocated[i] = NoTime
        /\ \A u \in PoolNames : Pools[u].n_busy = 0 /\ BusyMachines(u) = {}
        /\ ready_set = <<>> /\ instr_dispatched_list = <<>> /\ output = <<>>

\* the error has been raised for a program in which one instruction reads
\* what an earlier one writes
C11_Witness ==
    /\ pc = "ValueError"
    /\ \E a \in Instrs, b \in Instrs :
         a < b /\ Hazard(instr_list[a], instr_list[b])

\* the priority values of the instructions of a trace entry, in its order
EntryPriorities(e) == [k \in DOMAIN e[2] |-> priority[e[2][k]]]

\* C12: the trace has one entry for exactly those cycles in which at least
\* one instruction is newly dispatched, with strictly increasing cycle
\* numbers, and within each entry the newly dispatched instructions are
\* listed in priority order (non-decreasing priority value).
C12_Trace ==
    Scheduling =>
        /\ {output[k][1] : k \in DOMAIN output} =
              {c \in Cycles : DispatchedAt(c) # {}}
        /\ \A k \in DOMAIN output :
              /\ Range(output[k][2]) = DispatchedAt(output[k][1])
              /\ Len(output[k][2]) = Cardinality(DispatchedAt(output[k][1]))
              /\ k > 1 => output[k - 1][1] < output[k][1]
              /\ \A m \in 1..(Len(output[k][2]) - 1) :
                    EntryPriorities(output[k])[m] <= EntryPriorities(output[k])[m + 1]

\* the instructions that hold machine k of pool u in cycle c
OccupantsAt(u, k, c) == {i \in ExecutingAt(u, c) : allocated[i] = k - 1}

\* C13: a machine allocated at cycle s is marked busy for the cycles
\* s..s+latency-1 and is marked free by the resource-release step of cycle
\* s+latency-1: after that step its busy flag is false and stays false until
\* the machine is allocated again.  Between two cycles, t - 1 is the cycle
\* whose release step has just run.
C13_BusyWindow ==
    Scheduling =>
        \A u \in PoolNames : \A k \in 1..Pools[u].n :
            /\ OccupantsAt(u, k, t) # {} => k \in BusyMachines(u)
            /\ k \in BusyMachines(u) =>
                  t - 1 < Pools[u].unit_list[k][1] + LatencyOf(u) - 1

\* C14: allocate never hands out a machine that is still inside the busy
\* window of an earlier allocation, so two instructions never occupy the same
\* machine index in the same cycle, and the machine to allocate next is a
\* free one whenever the pool has a free machine.
C14_RoundRobin ==
    Scheduling =>
        \A u \in PoolNames :
            /\ \A k \in 1..Pools[u].n : \A c \in Cycles :
                  Cardinality(OccupantsAt(u, k, c)) <= 1
            /\ (\E k \in 1..Pools[u].n : OccupantsAt(u, k, t) = {})
                  => OccupantsAt(u, Pools[u].next + 1, t) = {}

\* the instructions of pool u that are Running
RunningOf(u) == {i \in Instrs : UnitOf(i) = u /\ Status(i) = "RUNNING"}

\* C15: at the end of every cycle (after the resource-release step) and for
\* each pool, n_busy equals the number of instructions of the pool's class
\* that are Running; every allocation is matched by exactly one decrement.
C15_BusyCount ==
    Scheduling =>
        \A u \in PoolNames : Pools[u].n_busy = Cardinality(RunningOf(u))

\* the instructions considered before position k of the ready set that need
\* pool u and that the pass of cycle t, now over, has dispatched
DispatchedBefore(u, k) ==
    {m \in 1..(k - 1) : UnitOf(ready_set[m]) = u /\ t_start'[ready_set[m]] = t}

C16_Step ==
    (pc = "loop" /\ t' = t + 1) =>
        \A k \in DOMAIN ready_set :
            LET x == ready_set[k]
                u == UnitOf(x)
            IN  Pools[u].n_busy + Cardinality(DispatchedBefore(u, k)) < Pools[u].n
                    => t_start'[x] = t

\* C16: a full pool does not end the dispatch pass: in any cycle, a ready
\* instruction whose own pool is not full at the moment it is considered
\* (the pool's n_busy at the start of the pass plus the instructions of the
\* pool dispatched earlier in the pass is below the unit count) is dispatched
\* in that cycle, whatever was skipped before it.
C16_NoBreakOnFull == [][C16_Step]_vars

\* the pass of the last cycle had two instructions to consider: the first,
\* of lower priority value, was skipped with its pool full, and the second,
\* of another pool, was dispatched
C16_Witness ==
    /\ pc = "loop" /\ t > 0
    /\ \E x \in Instrs, y \in Instrs :
         /\ {i \in Instrs : ReadyAt(i, t - 1)} = {x, y}
         /\ priority[x] < priority[y]
         /\ UnitOf(x) # UnitOf(y)
         /\ ~Started(x)
         /\ peak[UnitOf(x)] = n_units[UnitOf(x)]
         /\ Started(y) /\ t_start[y] = t - 1

\* a predecessor of instruction i becomes Done in the step, and with it all
\* predecessors of i are Done
LastPredecessorDone(i) ==
    /\ \E d \in Predecessors(i) : t_end[d] = NoTime /\ t_end'[d] # NoTime
    /\ \A d \in Predecessors(i) : t_end'[d] # NoTime

C17_Step ==
    pc' = "loop" =>
        /\ \A i \in Range(ready_set') :
              /\ get_status(t_start'[i], t_end'[i]) = "NOT_STARTED"
              /\ \A d \in Predecessors(i) :
                    get_status(t_start'[d], t_end'[d]) = "DONE"
        /\ \A i \in Range(instr_wait_list') :
              \E d \in Predecessors(i) :
                  get_status(t_start'[d], t_end'[d]) # "DONE"
        /\ \A i \in Instrs :
              /\ (i \in Range(instr_wait_list) /\ i \notin Range(instr_wait_list'))
                    => /\ i \in Range(ready_set')
                       /\ \/ pc = "first_ready" /\ Predecessors(i) = {}
                          \/ pc = "loop" /\ LastPredecessorDone(i)
              /\ LastPredecessorDone(i)
                    => /\ i \in Range(instr_wait_list)
                       /\ i \notin Range(instr_wait_list')
                       /\ i \in Range(ready_set')

\* C17: at the start of every dispatch pass, every instruction in the ready
\* set is Not-Started with all of its predecessors Done, and every
\* instruction in the wait set has a predecessor that is not Done; an
\* instruction moves from the wait set to the ready set in the refresh step
\* of exactly the cycle in which its last predecessor becomes Done (at the
\* first refresh, if it has no predecessor).
C17_ReadyAndWait == [][C17_Step]_vars

\* an instruction with two predecessors that ended in different cycles is in
\* the ready set right after the later one ended, while another instruction
\* still waits
C17_Witness ==
    /\ pc = "loop"
    /\ instr_wait_list # <<>>
    /\ \E i \in Range(ready_set) :
         \E d1 \in Predecessors(i), d2 \in Predecessors(i) :
             Ended(d1) /\ Ended(d2) /\ t_end[d1] < t_end[d2] /\ t_end[d2] = t - 1

\* the heap order of heapq on an array: no element is less than its parent
IsHeap(h) == \A k \in 2..Len(h) : ~InstrLt(h[k], h[k \div 2])

\* C18: the ready set is a priority-ordered min-heap at the start of every
\* cycle: every element's priority value is <= the priority values of its
\* heap children, so its first element has the minimum priority value among
\* the ready instructions.
C18_Heap ==
    pc = "loop" =>
        /\ IsHeap(ready_set)
        /\ \A i \in Range(ready_set) : priority[ready_set[1]] <= priority[i]

NoDuplicates(s) == \A a \in DOMAIN s, b \in DOMAIN s : a # b => s[a] # s[b]

\* the places of the trace at which instruction i is listed
TracePlaces(i) ==
    {<<k, m>> \in (DOMAIN output) \X (1..NumInstr) :
        m \in DOMAIN output[k][2] /\ output[k][2][m] = i}

\* C19: at every cycle boundary the wait set, the ready set and the
\* dispatched list are pairwise disjoint and together contain every input
\* instruction exactly once; an instruction is in the dispatched list if and
\* only if its start cycle is set, so every instruction is dispatched exactly
\* once over a run (it is listed once in the dispatched list and the trace).
C19_Partition ==
    pc \in {"constructed", "set_priority", "first_ready", "loop", "done"} =>
        /\ NoDuplicates(instr_wait_list \o ready_set \o instr_dispatched_list)
        /\ Range(instr_wait_list \o ready_set \o instr_dispatched_list) = Instrs
        /\ \A i \in Instrs :
              /\ i \in Range(instr_dispatched_list) <=> Started(i)
              /\ Cardinality(TracePlaces(i)) = IF Started(i) THEN 1 ELSE 0
        /\ pc = "done" => \A i \in Instrs : Started(i)

\* between two cycles, with instructions in each of the three collections,
\* the dispatched ones started in different cycles
C19_Witness ==
    /\ pc = "loop"
    /\ instr_wait_list # <<>> /\ ready_set # <<>>
    /\ \E i \in Range(instr_dispatched_list), j \in Range(instr_dispatched_list) :
         t_start[i] < t_start[j]

\* one more pass of the relaxation that has run would change no priority
AtFixpoint ==
    CASE priority_type = "time" ->
           ~CriticalPass([p |-> priority, updated |-> FALSE], 1).updated
      [] priority_type = "resource" ->
           ~DepthPass([p |-> priority, updated |-> FALSE], 1).updated

\* C20: for a non-empty instruction list (its edges all lead from an earlier
\* to a later instruction), _find_critical_path and _count_dependency reach a
\* fixpoint and stop after at most |V| full passes over the instruction list,
\* counting the final pass that makes no change.
C20_PassBound ==
    /\ \A i \in Instrs : \A d \in Predecessors(i) : d < i
    /\ (PrioritySet /\ NumInstr >= 1) => n_pass \in 1..NumInstr
    /\ pc = "first_ready" => AtFixpoint

\* the critical-path relaxation has stopped after exactly |V| passes on a
\* program of three or more instructions
C20_Witness ==
    /\ pc = "first_ready"
    /\ priority_type = "time"
    /\ NumInstr >= 3
    /\ n_pass = NumInstr

=============================================================================
